---------------------------- MODULE Spec2Model ----------------------------
(***************************************************************************)
(* Lock manager, transaction handler and deadlock coordinator of           *)
(* hw4/student.py: Lock, TransactionHandler, TransactionCoordinator.       *)
(*                                                                         *)
(* The program state is the record State: the shared lock table (with the  *)
(* insertion order of its keys, which is the order dict iteration visits   *)
(* them in), the key-value store, and each handler's _acquired_locks,      *)
(* _desired_lock and _undo_log.  Every method is an operator from a        *)
(* program state to the program state it leaves, with its return value in  *)
(* the field ret; the actions apply one method call each.                  *)
(***************************************************************************)
EXTENDS Integers, Sequences, FiniteSets, TLC

VARIABLES lock_table, key_order, store, acquired_locks, desired_lock,
          undo_log, status, ops, last, written, committed, began, waiting

vars == <<lock_table, key_order, store, acquired_locks, desired_lock,
          undo_log, status, ops, last, written, committed, began, waiting>>

(***************************************************************************)
(* Bounds and the inputs the operations are tried on.                      *)
(***************************************************************************)
\* The number of client requests (GET, PUT) issued in a run of Spec (and
\* FairSpec), of SpecKV, of SpecRW, of SpecDL, of SpecDet and of SpecRe.
MaxOps == 3

MaxOpsKV == 3

MaxOpsRW == 6

MaxOpsDL == 5

MaxOpsDet == 6

MaxOpsRe == 3

Xids == {1, 2, 3}

Keys == {"a", "b"}

\* "" is a value Python treats as false, "x" one it treats as true.
Values == {"", "x"}

None == "None"

NoXid == 0

USER == 0

DEADLOCK == 1

ExclusiveLock == "ExclusiveLock"

SharedLock == "SharedLock"

\* Python's truth value of a returned result (None and "" are false).
Truthy(v) == v # None /\ v # ""

InSeq(x, seq) == \E i \in 1..Len(seq) : seq[i] = x

\* list.remove(x): drops the first occurrence of x.
RECURSIVE Remove(_, _)
Remove(seq, x) ==
    IF seq = <<>> THEN <<>>
    ELSE IF Head(seq) = x THEN Tail(seq)
    ELSE <<Head(seq)>> \o Remove(Tail(seq), x)

(***************************************************************************)
(* class RequestLock, class Lock                                           *)
(***************************************************************************)
RequestLock(transaction, mode) == [transaction |-> transaction, mode |-> mode]

\* Lock.__init__
NewLock(transaction, mode) ==
    [transactions |-> <<transaction>>, mode |-> mode, request_queue |-> <<>>]

current_transactions(lock) == lock.transactions

first_current_transaction(lock) ==
    IF Len(current_transactions(lock)) # 0
    THEN current_transactions(lock)[1]
    ELSE NoXid

hold_lock(lock, transaction, mode) ==
    InSeq(transaction, lock.transactions) /\ lock.mode = mode

\* can_acquire_lock with the upgrade granted to any holder, not only to the
\* sole one.
can_acquire_lock_AnyHolder(lock, transaction, mode) ==
    IF Len(lock.transactions) = 0 THEN TRUE
    ELSE IF lock.mode = ExclusiveLock THEN InSeq(transaction, lock.transactions)
    ELSE IF mode = SharedLock THEN TRUE
    ELSE IF InSeq(transaction, lock.transactions)
         THEN mode = ExclusiveLock
    ELSE FALSE

\* can_acquire_lock without the in-place upgrade of the sole holder.
can_acquire_lock_NoUpgrade(lock, transaction, mode) ==
    IF Len(lock.transactions) = 0 THEN TRUE
    ELSE IF lock.mode = ExclusiveLock THEN InSeq(transaction, lock.transactions)
    ELSE IF mode = SharedLock THEN TRUE
    ELSE FALSE

can_acquire_lock(lock, transaction, mode) ==
    IF Len(lock.transactions) = 0 THEN TRUE
    ELSE IF lock.mode = ExclusiveLock THEN InSeq(transaction, lock.transactions)
    ELSE IF mode = SharedLock THEN TRUE
    ELSE IF Len(lock.transactions) = 1 /\ InSeq(transaction, lock.transactions)
         THEN mode = ExclusiveLock
    ELSE FALSE

\* has_request_and_update: the first queued Shared entry of the transaction.
SharedEntries(queue, transaction) ==
    {i \in 1..Len(queue) :
        queue[i].transaction = transaction /\ queue[i].mode = SharedLock}

append_request(lock, transaction, mode) ==
    LET q == lock.request_queue
        hit == SharedEntries(q, transaction)
    IN  IF q # <<>>
        THEN IF hit # {}
             THEN LET i == CHOOSE j \in hit : \A h \in hit : j <= h
                  IN  [lock EXCEPT !.request_queue[i].mode = mode]
             ELSE [lock EXCEPT
                     !.request_queue = Append(q, RequestLock(transaction, mode))]
        ELSE [lock EXCEPT !.request_queue = <<RequestLock(transaction, mode)>>]

\* _grant_request granting the newest request: pop() for pop(0).
grant_request_Newest(lock) ==
    IF lock.request_queue # <<>>
    THEN LET q == lock.request_queue
             request == q[Len(q)]
         IN  [transactions  |-> Append(lock.transactions, request.transaction),
              mode          |-> request.mode,
              request_queue |-> SubSeq(q, 1, Len(q) - 1)]
    ELSE lock

\* _grant_request granting, with a Shared head, the Shared request behind
\* it as well.
grant_request_Compatible(lock) ==
    LET q == lock.request_queue
    IN  IF q = <<>> THEN lock
        ELSE IF Len(q) >= 2 /\ q[1].mode = SharedLock /\ q[2].mode = SharedLock
             THEN [transactions  |-> lock.transactions
                                        \o <<q[1].transaction, q[2].transaction>>,
                   mode          |-> SharedLock,
                   request_queue |-> Tail(Tail(q))]
             ELSE [transactions  |-> Append(lock.transactions, q[1].transaction),
                   mode          |-> q[1].mode,
                   request_queue |-> Tail(q)]

grant_request(lock) ==
    IF lock.request_queue # <<>>
    THEN LET request == Head(lock.request_queue)
         IN  [transactions  |-> Append(lock.transactions, request.transaction),
              mode          |-> request.mode,
              request_queue |-> Tail(lock.request_queue)]
    ELSE lock

\* request_lock without self.transactions.remove(transaction).
request_lock_KeepHolder(lock, transaction, mode) ==
    IF can_acquire_lock(lock, transaction, mode)
    THEN [lock    |-> [lock EXCEPT
                         !.transactions =
                             IF InSeq(transaction, lock.transactions)
                             THEN lock.transactions
                             ELSE Append(lock.transactions, transaction),
                         !.mode = mode],
          granted |-> TRUE]
    ELSE [lock    |-> append_request(lock, transaction, mode),
          granted |-> FALSE]

\* Returns the lock afterwards and whether the request was granted.
request_lock(lock, transaction, mode) ==
    IF can_acquire_lock(lock, transaction, mode)
    THEN [lock    |-> [lock EXCEPT
                         !.transactions =
                             IF InSeq(transaction, lock.transactions)
                             THEN lock.transactions
                             ELSE Append(lock.transactions, transaction),
                         !.mode = mode],
          granted |-> TRUE]
    ELSE [lock    |-> append_request(
                         [lock EXCEPT
                            !.transactions = Remove(lock.transactions, transaction)],
                         transaction, mode),
          granted |-> FALSE]

\* release_lock without self.mode = None.
release_lock_KeepMode(lock, transaction) ==
    LET l1 == [lock EXCEPT !.transactions = Remove(lock.transactions, transaction)]
    IN  IF Len(l1.transactions) = 0
        THEN grant_request(l1)
        ELSE l1

release_lock(lock, transaction) ==
    LET l1 == [lock EXCEPT !.transactions = Remove(lock.transactions, transaction)]
    IN  IF Len(l1.transactions) = 0
        THEN grant_request([l1 EXCEPT !.mode = None])
        ELSE l1


(***************************************************************************)
(* class TransactionHandler.  s is the program state, t the handler's xid. *)
(***************************************************************************)
\* self._desired_lock = None
NoDesire == [key |-> None, mode |-> None, op |-> None, value |-> None]

\* self._lock_table[key] = lock
SetLock(table, key, lock) ==
    [k \in (DOMAIN table) \cup {key} |-> IF k = key THEN lock ELSE table[k]]

perform_put(s, t, key, value) ==
    LET present == key \in DOMAIN s.lock_table
        lock    == IF present THEN s.lock_table[key] ELSE NewLock(t, ExclusiveLock)
        order   == IF present THEN s.key_order ELSE Append(s.key_order, key)
        r       == request_lock(lock, t, ExclusiveLock)
        s1      == [s EXCEPT !.lock_table = SetLock(s.lock_table, key, r.lock),
                             !.key_order = order]
    IN  IF r.granted
        THEN [s1 EXCEPT !.undo_log[t] = Append(@, <<key, s.store[key]>>),
                        !.acquired_locks[t] = Append(@, key),
                        !.store[key] = value,
                        !.ret = "Success"]
        ELSE [s1 EXCEPT !.desired_lock[t] =
                            [key |-> key, mode |-> ExclusiveLock,
                             op |-> "perform_put", value |-> value],
                        !.ret = None]

perform_get(s, t, key) ==
    LET present == key \in DOMAIN s.lock_table
        lock    == IF present THEN s.lock_table[key] ELSE NewLock(t, SharedLock)
        order   == IF present THEN s.key_order ELSE Append(s.key_order, key)
        r       == request_lock(lock, t, SharedLock)
        s1      == [s EXCEPT !.lock_table = SetLock(s.lock_table, key, r.lock),
                             !.key_order = order]
    IN  IF r.granted
        THEN [s1 EXCEPT !.acquired_locks[t] = Append(@, key),
                        !.ret = IF s.store[key] = None THEN "No such key"
                                ELSE s.store[key]]
        ELSE [s1 EXCEPT !.desired_lock[t] =
                            [key |-> key, mode |-> SharedLock,
                             op |-> "perform_get", value |-> None],
                        !.ret = None]

\* for l in self._acquired_locks: self._lock_table.get(l).release_lock(self)
RECURSIVE ReleaseAll(_, _, _)
ReleaseAll(table, t, keys) ==
    IF keys = <<>> THEN table
    ELSE ReleaseAll([table EXCEPT ![Head(keys)] = release_lock(@, t)],
                    t, Tail(keys))

release_and_grant_locks(s, t) ==
    [s EXCEPT !.lock_table = ReleaseAll(s.lock_table, t, s.acquired_locks[t]),
              !.acquired_locks[t] = <<>>]

commit(s, t) ==
    [release_and_grant_locks(s, t) EXCEPT !.ret = "Transaction Completed"]

\* while len(self._undo_log) > 0: k, v = self._undo_log.pop(); put(k, v)
RECURSIVE Undo(_, _)
Undo(kv, log) ==
    IF log = <<>> THEN kv
    ELSE LET e == log[Len(log)]
         IN  Undo([kv EXCEPT ![e[1]] = e[2]], SubSeq(log, 1, Len(log) - 1))

\* The undo log applied oldest entry first.
RECURSIVE UndoForward(_, _)
UndoForward(kv, log) ==
    IF log = <<>> THEN kv
    ELSE UndoForward([kv EXCEPT ![Head(log)[1]] = Head(log)[2]], Tail(log))

\* abort with pop(0) for pop().
abort_OldestFirst(s, t, mode) ==
    LET s1 == [s EXCEPT !.store = UndoForward(s.store, s.undo_log[t]),
                        !.undo_log[t] = <<>>]
    IN  [release_and_grant_locks(s1, t) EXCEPT
            !.ret = IF mode = USER THEN "User Abort" ELSE "Deadlock Abort"]

abort(s, t, mode) ==
    LET s1 == [s EXCEPT !.store = Undo(s.store, s.undo_log[t]),
                        !.undo_log[t] = <<>>]
    IN  [release_and_grant_locks(s1, t) EXCEPT
            !.ret = IF mode = USER THEN "User Abort" ELSE "Deadlock Abort"]

\* op(): the stored lambda re-invokes the blocked request.
RunOp(s, t, d) ==
    IF d.op = "perform_put" THEN perform_put(s, t, d.key, d.value)
    ELSE perform_get(s, t, d.key)

check_lock(s, t) ==
    LET d == s.desired_lock[t]
    IN  IF d = NoDesire THEN [s EXCEPT !.ret = None]
        ELSE IF hold_lock(s.lock_table[d.key], t, d.mode)
             THEN LET r == RunOp(s, t, d)
                  IN  IF Truthy(r.ret)
                      THEN [r EXCEPT !.desired_lock[t] = NoDesire]
                      ELSE r
             ELSE [s EXCEPT !.ret = None]

(***************************************************************************)
(* class TransactionCoordinator                                            *)
(***************************************************************************)
\* get_desired_key_tranc: raises when the lock has no holder or the first
\* holder has no desired lock; Raises says so, DesiredKeyTranc is the pair.
Raises(s, lock) ==
    \/ first_current_transaction(lock) = NoXid
    \/ s.desired_lock[first_current_transaction(lock)] = NoDesire

DesiredKeyTranc(s, lock) ==
    LET t == first_current_transaction(lock)
    IN  [key |-> s.desired_lock[t].key, t |-> t]

Min(a, b) == IF a <= b THEN a ELSE b

\* The body of the for loop for one key: the xid returned, or NoXid when the
\* iteration raises or falls through.
ScanKey(s, key) ==
    LET lock == s.lock_table[key]
    IN  IF Raises(s, lock) THEN NoXid
        ELSE LET a     == DesiredKeyTranc(s, lock)
                 other == s.lock_table[a.key]
             IN  IF Raises(s, other) THEN NoXid
                 ELSE LET b == DesiredKeyTranc(s, other)
                      IN  IF b.key = key THEN Min(a.t, b.t) ELSE NoXid

RECURSIVE Scan(_, _)
Scan(s, keys) ==
    IF keys = <<>> THEN NoXid
    ELSE IF ScanKey(s, Head(keys)) # NoXid THEN ScanKey(s, Head(keys))
    ELSE Scan(s, Tail(keys))

\* detect_deadlocks scanning the lock table in the opposite order when the
\* call before was a detect_deadlocks too.
Reverse(seq) == [i \in 1..Len(seq) |-> seq[Len(seq) + 1 - i]]

detect_deadlocks_Alternating(s) ==
    IF last.op = "detect_deadlocks"
    THEN Scan(s, Reverse(s.key_order))
    ELSE Scan(s, s.key_order)

detect_deadlocks(s) == Scan(s, s.key_order)

(***************************************************************************)
(* The driver: the request loop that calls the handlers.  status is what   *)
(* the driver knows of each transaction and ops counts the client          *)
(* requests.  The other variables record the run: last is the call made    *)
(* last with what it returned; written keeps, for each live transaction    *)
(* and key, the value the key had before the transaction's first           *)
(* successful PUT on it and the value of its latest; committed is the      *)
(* store as the commits so far have left it; began keeps, for each live    *)
(* transaction, committed as it was when the transaction issued its first  *)
(* request; waiting keeps, for each key, the transactions whose request    *)
(* was refused and has not been granted since, in the order of their       *)
(* refusals.                                                               *)
(***************************************************************************)
State ==
    [lock_table |-> lock_table, key_order |-> key_order, store |-> store,
     acquired_locks |-> acquired_locks, desired_lock |-> desired_lock,
     undo_log |-> undo_log, ret |-> None]

Install(r) ==
    /\ lock_table' = r.lock_table
    /\ key_order' = r.key_order
    /\ store' = r.store
    /\ acquired_locks' = r.acquired_locks
    /\ desired_lock' = r.desired_lock
    /\ undo_log' = r.undo_log

\* A call of method op on handler t (resumed: the request check_lock
\* re-invoked), its result ret, for detect_deadlocks the xid returned, and
\* for abort the number of undo-log entries it applied (key: the key of the
\* oldest of them).
Call(op, t, key, resumed, ret, victim) ==
    [op |-> op, t |-> t, key |-> key, resumed |-> resumed, ret |-> ret,
     victim |-> victim,
     undone |-> IF op = "abort" THEN Len(undo_log[t]) ELSE 0]

NotWritten == [old |-> "-", new |-> "-"]

NoWrites == [k \in Keys |-> NotWritten]

\* The record of a successful PUT of value on key, the store being kv before.
NotePut(w, kv, key, value) ==
    [w EXCEPT ![key] = [old |-> IF w[key] = NotWritten THEN kv[key]
                                ELSE w[key].old,
                        new |-> value]]

NotBegun == [on |-> FALSE, kv |-> [k \in Keys |-> None]]

NoteBegin(b, kv) == IF b.on THEN b ELSE [on |-> TRUE, kv |-> kv]

Holds(table, t, key) ==
    key \in DOMAIN table /\ InSeq(t, table[key].transactions)

\* t becomes a holder of key in the step from table to table1.
GrantedIn(table, table1, t, key) ==
    ~Holds(table, t, key) /\ Holds(table1, t, key)

RECURSIVE Ungranted(_, _, _, _)
Ungranted(seq, table, table1, key) ==
    IF seq = << >> THEN << >>
    ELSE IF GrantedIn(table, table1, Head(seq), key)
         THEN Ungranted(Tail(seq), table, table1, key)
         ELSE <<Head(seq)>> \o Ungranted(Tail(seq), table, table1, key)

\* waiting after a call that leaves the lock table table1: t is the caller
\* and key the key its request was refused on (None: no refusal).
NoteWait(table1, t, key) ==
    [k \in Keys |->
        LET w == Ungranted(waiting[k], lock_table, table1, k)
        IN  IF k = key /\ ~InSeq(t, w) THEN Append(w, t) ELSE w]

\* The transaction detect_deadlocks has just named and the driver must abort.
Pending ==
    IF /\ last.op = "detect_deadlocks"
       /\ last.victim # NoXid
       /\ status[last.victim] # "Terminated"
    THEN last.victim
    ELSE NoXid

InitOf(X) ==
    /\ lock_table = << >>
    /\ key_order = << >>
    /\ store = [k \in Keys |-> None]
    /\ acquired_locks = [t \in X |-> << >>]
    /\ desired_lock = [t \in X |-> NoDesire]
    /\ undo_log = [t \in X |-> << >>]
    /\ status = [t \in X |-> "Active"]
    /\ ops = 0
    /\ last = Call("init", NoXid, None, None, None, NoXid)
    /\ written = [t \in X |-> NoWrites]
    /\ committed = [k \in Keys |-> None]
    /\ began = [t \in X |-> NotBegun]
    /\ waiting = [k \in Keys |-> << >>]

ClientPut(t, key, value) ==
    /\ Pending = NoXid
    /\ status[t] = "Active"
    /\ LET r == perform_put(State, t, key, value)
       IN  /\ Install(r)
           /\ status' = [status EXCEPT ![t] = IF r.ret = None THEN "Blocked"
                                              ELSE "Active"]
           /\ last' = Call("perform_put", t, key, None, r.ret, NoXid)
           /\ written' = IF r.ret = None THEN written
                         ELSE [written EXCEPT
                                 ![t] = NotePut(@, store, key, value)]
           /\ waiting' = NoteWait(r.lock_table, t,
                                  IF r.ret = None THEN key ELSE None)
    /\ began' = [began EXCEPT ![t] = NoteBegin(@, committed)]
    /\ ops' = ops + 1
    /\ UNCHANGED committed

ClientGet(t, key) ==
    /\ Pending = NoXid
    /\ status[t] = "Active"
    /\ LET r == perform_get(State, t, key)
       IN  /\ Install(r)
           /\ status' = [status EXCEPT ![t] = IF r.ret = None THEN "Blocked"
                                              ELSE "Active"]
           /\ last' = Call("perform_get", t, key, None, r.ret, NoXid)
           /\ waiting' = NoteWait(r.lock_table, t,
                                  IF r.ret = None THEN key ELSE None)
    /\ began' = [began EXCEPT ![t] = NoteBegin(@, committed)]
    /\ ops' = ops + 1
    /\ UNCHANGED committed
    /\ UNCHANGED written

\* The driver polls a Blocked handler; a result other than None ends the wait.
Poll(t) ==
    /\ Pending = NoXid
    /\ status[t] = "Blocked"
    /\ LET d == desired_lock[t]
           r == check_lock(State, t)
           ran == hold_lock(lock_table[d.key], t, d.mode)
       IN  /\ Install(r)
           /\ status' = [status EXCEPT ![t] = IF r.ret = None THEN "Blocked"
                                              ELSE "Active"]
           /\ last' = Call("check_lock", t, d.key,
                           IF ran THEN d.op ELSE None, r.ret, NoXid)
           /\ written' = IF ran /\ r.ret = "Success" /\ d.op = "perform_put"
                         THEN [written EXCEPT
                                 ![t] = NotePut(@, store, d.key, d.value)]
                         ELSE written
           /\ waiting' = NoteWait(r.lock_table, t,
                                  IF ran /\ r.ret = None THEN d.key ELSE None)
    /\ UNCHANGED <<ops, began, committed>>

\* What commit and abort leave of the driver's and the run's records.
Terminate(r, t) ==
    /\ Install(r)
    /\ last' = IF r.ret = "Transaction Completed"
               THEN Call("commit", t, None, None, r.ret, NoXid)
               ELSE Call("abort", t,
                         IF undo_log[t] = << >> THEN None ELSE undo_log[t][1][1],
                         None, r.ret, NoXid)
    /\ status' = [status EXCEPT ![t] = "Terminated"]
    /\ written' = [written EXCEPT ![t] = NoWrites]
    /\ committed' = IF r.ret = "Transaction Completed"
                    THEN [k \in Keys |-> IF written[t][k] # NotWritten
                                         THEN r.store[k] ELSE committed[k]]
                    ELSE committed
    /\ began' = [began EXCEPT ![t] = NotBegun]
    /\ waiting' = NoteWait(r.lock_table, t, None)
    /\ UNCHANGED ops

ClientCommit(t) ==
    /\ Pending = NoXid
    /\ status[t] = "Active"
    /\ Terminate(commit(State, t), t)

\* abort(USER): the client gives up.
ClientAbort(t) ==
    /\ Pending = NoXid
    /\ status[t] # "Terminated"
    /\ Terminate(abort(State, t, USER), t)

DetectDeadlocks ==
    /\ Pending = NoXid
    /\ last' = Call("detect_deadlocks", NoXid, None, None, None,
                    detect_deadlocks(State))
    /\ UNCHANGED <<lock_table, key_order, store, acquired_locks, desired_lock,
                   undo_log, status, ops, written, committed, began, waiting>>

\* abort(DEADLOCK) of the transaction detect_deadlocks has just returned.
DeadlockAbort(t) ==
    /\ Pending = t
    /\ Terminate(abort(State, t, DEADLOCK), t)

\* Transactions X issuing at most max requests on keys K with values V; a
\* client aborts its transaction in the states A.
NextOf(X, K, V, max, A) ==
    \/ \E t \in X, key \in K, value \in V : ops < max /\ ClientPut(t, key, value)
    \/ \E t \in X, key \in K : ops < max /\ ClientGet(t, key)
    \/ \E t \in X : Poll(t)
    \/ \E t \in X : ClientCommit(t)
    \/ \E t \in X : status[t] \in A /\ ClientAbort(t)
    \/ DetectDeadlocks
    \/ \E t \in X : DeadlockAbort(t)

\* Three transactions, two keys, one value.
Init == InitOf(Xids)

Next == NextOf(Xids, Keys, {"x"}, MaxOps, {"Active", "Blocked"})

Spec == Init /\ [][Next]_vars

\* Two transactions, two keys, both values.
InitKV == InitOf({1, 2})

NextKV == NextOf({1, 2}, Keys, Values, MaxOpsKV, {"Active", "Blocked"})

SpecKV == InitKV /\ [][NextKV]_vars

\* Two transactions reading and writing one key, both values.
InitRW == InitOf({1, 2})

NextRW == NextOf({1, 2}, {"a"}, Values, MaxOpsRW, {"Active", "Blocked"})

SpecRW == InitRW /\ [][NextRW]_vars

\* Three transactions, two keys, one value, longer runs; the driver aborts
\* a blocked transaction only when detect_deadlocks names it.
InitDL == InitOf(Xids)

NextDL == NextOf(Xids, Keys, {"x"}, MaxOpsDL, {"Active"})

SpecDL == InitDL /\ [][NextDL]_vars

\* Three transactions of at most two requests each on two keys, none of
\* which has come to its commit: only the coordinator ends a transaction.
Requests == {1, 2}

MayRequest(t) == Len(acquired_locks[t]) + 1 \in Requests

NextDet ==
    \/ \E t \in Xids, key \in Keys :
          ops < MaxOpsDet /\ MayRequest(t) /\ ClientPut(t, key, "x")
    \/ \E t \in Xids, key \in Keys :
          ops < MaxOpsDet /\ MayRequest(t) /\ ClientGet(t, key)
    \/ \E t \in Xids : Poll(t)
    \/ DetectDeadlocks
    \/ \E t \in Xids : DeadlockAbort(t)

SpecDet == Init /\ [][NextDet]_vars

\* A client sends the request its Blocked transaction is waiting on once
\* more: perform_put and perform_get take a request whatever _desired_lock is.
Resend(t) ==
    /\ Pending = NoXid
    /\ status[t] = "Blocked"
    /\ LET d == desired_lock[t]
           r == RunOp(State, t, d)
       IN  /\ Install(r)
           /\ status' = [status EXCEPT ![t] = IF r.ret = None THEN "Blocked"
                                              ELSE "Active"]
           /\ last' = Call(d.op, t, d.key, None, r.ret, NoXid)
           /\ written' = IF r.ret = "Success" /\ d.op = "perform_put"
                         THEN [written EXCEPT
                                 ![t] = NotePut(@, store, d.key, d.value)]
                         ELSE written
           /\ waiting' = NoteWait(r.lock_table, t,
                                  IF r.ret = None THEN d.key ELSE None)
    /\ ops' = ops + 1
    /\ UNCHANGED <<began, committed>>

\* Two transactions on two keys whose clients may send a request again
\* while it is waiting.
InitRe == InitOf({1, 2})

NextRe ==
    \/ NextOf({1, 2}, Keys, {"x"}, MaxOpsRe, {"Active", "Blocked"})
    \/ \E t \in {1, 2} : ops < MaxOpsRe /\ Resend(t)

SpecRe == InitRe /\ [][NextRe]_vars

\* The driver of a fair run, three transactions on one key: it keeps polling
\* every Blocked handler, keeps calling detect_deadlocks and aborts the
\* transaction it names, and every Active transaction commits or aborts in
\* the end.
NextFair == NextOf(Xids, {"a"}, {"x"}, MaxOps, {"Active"})

Fairness ==
    /\ WF_vars(DetectDeadlocks)
    /\ \A t \in Xids :
          /\ WF_vars(Poll(t))
          /\ WF_vars(DeadlockAbort(t))
          /\ WF_vars(ClientCommit(t) \/ (status[t] = "Active" /\ ClientAbort(t)))

FairSpec == Init /\ [][NextFair]_vars /\ Fairness

(***************************************************************************)
(* The wait-for relation between the transactions of a state.              *)
(***************************************************************************)
Txns == DOMAIN status

\* a is Blocked on a key that b holds and a has not been granted.
WaitsFor(a, b) ==
    /\ a # b
    /\ status[a] = "Blocked"
    /\ LET d == desired_lock[a]
       IN  /\ Holds(lock_table, b, d.key)
           /\ ~hold_lock(lock_table[d.key], a, d.mode)

RECURSIVE Reach(_, _)
Reach(S, n) ==
    IF n = 0 THEN S
    ELSE Reach(S \cup {b \in Txns : \E a \in S : WaitsFor(a, b)}, n - 1)

OnCycle(t) ==
    t \in Reach({b \in Txns : WaitsFor(t, b)}, Cardinality(Txns))

HasCycle == \E t \in Txns : OnCycle(t)

Holders(k) == {lock_table[k].transactions[i] :
                   i \in 1..Len(lock_table[k].transactions)}

(***************************************************************************)
(* C1: for every key of the lock table, in every reachable state, a Lock   *)
(* whose mode is Exclusive has exactly one holder.                         *)
(***************************************************************************)
C1_ExclusiveHasOneHolder ==
    \A k \in DOMAIN lock_table :
        lock_table[k].mode = ExclusiveLock =>
            /\ Len(lock_table[k].transactions) = 1
            /\ Cardinality(Holders(k)) = 1

\* A request has just been refused on a key held in Exclusive mode.
C1_Witness ==
    \E k \in DOMAIN lock_table :
        /\ lock_table[k].mode = ExclusiveLock
        /\ Len(lock_table[k].request_queue) = 2
        /\ last.op \in {"perform_put", "perform_get"}
        /\ last.key = k
        /\ last.ret = None

(***************************************************************************)
(* C2: when a transaction that has performed successful PUTs aborts, the   *)
(* store's value of every key it wrote is, right after the abort, the      *)
(* value the key had immediately before the transaction's first successful *)
(* PUT on it.                                                              *)
(***************************************************************************)
AbortStep(t) ==
    /\ status[t] # "Terminated"
    /\ status'[t] = "Terminated"
    /\ last'.op = "abort"

C2_UndoRestoresBeforeFirstPut ==
    [][\A t \in Txns, k \in Keys :
          (AbortStep(t) /\ written[t][k] # NotWritten)
              => store'[k] = written[t][k].old]_vars

\* An abort has undone two writes, the older on a key that now has again
\* the value another transaction committed.
C2_Witness ==
    /\ last.op = "abort"
    /\ last.undone >= 2
    /\ \E k \in Keys : last.key = k /\ store[k] # None /\ store[k] = committed[k]

\* C2 as stated: the value is the one the key had before the transaction
\* began, that is, the one committed when it issued its first request.
C2_UndoRestoresPreTransaction ==
    [][\A t \in Txns, k \in Keys :
          (AbortStep(t) /\ written[t][k] # NotWritten)
              => store'[k] = began[t].kv[k]]_vars

(***************************************************************************)
(* C3: a transaction whose commit() or abort() has returned is in the      *)
(* holder set of no key's Lock, in that state and in every later one.      *)
(***************************************************************************)
C3_TerminatedHoldsNothing ==
    \A t \in Txns : status[t] = "Terminated" =>
        \A k \in DOMAIN lock_table : ~Holds(lock_table, t, k)

(***************************************************************************)
(* C4: whenever detect_deadlocks returns a transaction id, that            *)
(* transaction lies on a cycle of the wait-for relation; where the         *)
(* relation has no cycle, detect_deadlocks returns None.                   *)
(***************************************************************************)
C4_ReportedIsOnCycle ==
    (last.op = "detect_deadlocks" /\ last.victim # NoXid)
        => OnCycle(last.victim)

(***************************************************************************)
(* C5: in every reachable state whose wait-for relation has a cycle,       *)
(* detect_deadlocks returns the id of a transaction rather than None.      *)
(***************************************************************************)
C5_CycleIsReported ==
    (last.op = "detect_deadlocks" /\ HasCycle) => last.victim # NoXid

(***************************************************************************)
(* C6: under the fair driver every Blocked transaction eventually gets a   *)
(* result other than None from check_lock or is aborted.                   *)
(***************************************************************************)
C6_NoTransactionStaysBlocked ==
    \A t \in Xids : (status[t] = "Blocked") ~> (status[t] # "Blocked")

(***************************************************************************)
(* C7: for one key, a transaction whose request was placed in the wait     *)
(* queue before another's is granted the key no later than the other: a    *)
(* step that grants a waiting transaction grants every one that has        *)
(* waited longer.                                                          *)
(***************************************************************************)
C7_GrantsAreFIFO ==
    [][\A k \in Keys : \A i, j \in 1..Len(waiting[k]) :
          (i < j /\ GrantedIn(lock_table, lock_table', waiting[k][j], k))
              => GrantedIn(lock_table, lock_table', waiting[k][i], k)]_vars

\* A commit or abort has just granted the key to the first of two Blocked
\* transactions that were waiting for it.
C7_Witness ==
    \E k \in DOMAIN lock_table : \E a, b \in Txns :
        /\ last.op \in {"commit", "abort"}
        /\ a # b
        /\ status[a] = "Blocked" /\ desired_lock[a].key = k
        /\ Holds(lock_table, a, k)
        /\ status[b] = "Blocked" /\ desired_lock[b].key = k
        /\ waiting[k] = <<b>>

(***************************************************************************)
(* C8: when two transactions deadlock each other (each holds a key the     *)
(* other is Blocked on), detect_deadlocks returns the smaller of their     *)
(* xids.                                                                   *)
(***************************************************************************)
C8_ReportsSmallerXid ==
    \A a, b \in Txns :
        (last.op = "detect_deadlocks" /\ WaitsFor(a, b) /\ WaitsFor(b, a))
            => last.victim = Min(a, b)

(***************************************************************************)
(* C9: in a two-transaction deadlock (a holds Exclusive on one key and is  *)
(* Blocked on another, which b holds Exclusive while Blocked on the        *)
(* first), once the driver aborts the transaction detect_deadlocks named,  *)
(* the survivor's next check_lock returns a result other than None and a   *)
(* detect_deadlocks call made after the abort does not report the          *)
(* survivor.                                                               *)
(***************************************************************************)
ExclusiveDeadlock(a, b) ==
    \E ka, kb \in DOMAIN lock_table :
        /\ ka # kb
        /\ hold_lock(lock_table[ka], a, ExclusiveLock)
        /\ status[a] = "Blocked" /\ desired_lock[a].key = kb
        /\ hold_lock(lock_table[kb], b, ExclusiveLock)
        /\ status[b] = "Blocked" /\ desired_lock[b].key = ka

C9_SurvivorResumes ==
    [][\A a, b \in Txns :
          (ExclusiveDeadlock(a, b) /\ DeadlockAbort(a))
              => /\ (check_lock(State, b).ret # None)'
                 /\ (detect_deadlocks(State) # b)']_vars

(***************************************************************************)
(* C10: a GET of key K delivered to transaction T (by perform_get or       *)
(* through check_lock) after a successful PUT of T on K returns the value  *)
(* of T's latest successful PUT on K.                                      *)
(***************************************************************************)
GetResult(t, k) ==
    /\ last.t = t
    /\ last.key = k
    /\ last.ret # None
    /\ \/ last.op = "perform_get"
       \/ last.op = "check_lock" /\ last.resumed = "perform_get"

C10_ReadYourOwnWrites ==
    \A t \in Txns, k \in Keys :
        (GetResult(t, k) /\ written[t][k] # NotWritten)
            => last.ret = written[t][k].new

(***************************************************************************)
(* C11: when transaction t is the only holder of key k and the mode is     *)
(* Shared, a perform_put of t on k is granted in that call: it returns     *)
(* 'Success', the mode becomes Exclusive, t stays the only holder and the  *)
(* wait queue, empty or not, is left as it was.                            *)
(***************************************************************************)
PutCall(t, k) ==
    /\ ops' = ops + 1
    /\ last'.op = "perform_put"
    /\ last'.t = t
    /\ last'.key = k

C11_SoleSharedHolderUpgrades ==
    [][\A t \in Txns : \A k \in DOMAIN lock_table :
          (/\ lock_table[k].transactions = <<t>>
           /\ lock_table[k].mode = SharedLock
           /\ PutCall(t, k))
              => /\ last'.ret = "Success"
                 /\ lock_table'[k].mode = ExclusiveLock
                 /\ lock_table'[k].transactions = <<t>>
                 /\ lock_table'[k].request_queue = lock_table[k].request_queue]_vars

\* A transaction that read a key has just written it, while another
\* transaction is in the key's wait queue.
C11_Witness ==
    \E t \in Txns : \E k \in DOMAIN lock_table :
        /\ last.op = "perform_put" /\ last.t = t /\ last.key = k
        /\ last.ret = "Success"
        /\ acquired_locks[t] = <<k, k>>
        /\ Len(undo_log[t]) = 1
        /\ lock_table[k].transactions = <<t>>
        /\ lock_table[k].request_queue # << >>

(***************************************************************************)
(* C12: whenever check_lock returns a result other than None, the          *)
(* handler's _desired_lock is None afterwards, whatever the value the      *)
(* resumed request returned.                                               *)
(***************************************************************************)
C12_ResultClearsDesiredLock ==
    (last.op = "check_lock" /\ last.ret # None)
        => desired_lock[last.t] = NoDesire

(***************************************************************************)
(* C13: for every key's Lock in every reachable state, the mode is None    *)
(* if and only if the Lock has no holder.                                  *)
(***************************************************************************)
C13_ModeNoneIffNoHolder ==
    \A k \in DOMAIN lock_table :
        (lock_table[k].mode = None) <=> (lock_table[k].transactions = << >>)

\* A commit or abort has left a Lock without holder, and another Lock has
\* holders.
C13_Witness ==
    /\ last.op \in {"commit", "abort"}
    /\ \E k \in DOMAIN lock_table :
          lock_table[k].transactions = << >> /\ lock_table[k].mode = None
    /\ \E k \in DOMAIN lock_table :
          lock_table[k].transactions # << >> /\ lock_table[k].mode # None

(***************************************************************************)
(* C14: the loop that calls detect_deadlocks and aborts the transaction it *)
(* returns comes to a call that returns None; a transaction that has been  *)
(* aborted is never returned again.                                        *)
(***************************************************************************)
C14_AbortedNotReportedAgain ==
    (last.op = "detect_deadlocks" /\ last.victim # NoXid)
        => status[last.victim] # "Terminated"

C16_WriterHoldsAlone ==
    \A t \in Txns, k \in Keys :
        written[t][k] # NotWritten => Holders(k) \subseteq {t}

(***************************************************************************)
(* C17: after a transaction's commit or abort has returned, no Lock's      *)
(* wait queue has an entry of that transaction.                            *)
(***************************************************************************)
Queued(t, k) ==
    \E i \in 1..Len(lock_table[k].request_queue) :
        lock_table[k].request_queue[i].transaction = t

C17_TerminatedIsNotQueued ==
    \A t \in Txns : status[t] = "Terminated" =>
        \A k \in DOMAIN lock_table : ~Queued(t, k)

(***************************************************************************)
(* C18: when the release of transaction t, in its commit or abort, takes   *)
(* the last holder from a Lock whose wait queue is not empty, the Lock     *)
(* afterwards has the transaction of the head entry as its only holder,    *)
(* that entry's mode, and the old queue without its head; when the release *)
(* leaves other holders, the wait queue and the mode are unchanged.        *)
(***************************************************************************)
ReleaseStep(t) ==
    /\ status[t] # "Terminated"
    /\ status'[t] = "Terminated"

C18_ReleaseGrantsHeadOnly ==
    [][\A t \in Txns : \A k \in DOMAIN lock_table :
          (/\ ReleaseStep(t)
           /\ InSeq(k, acquired_locks[t])
           /\ Holds(lock_table, t, k))
              => LET lock == lock_table[k]
                     q    == lock.request_queue
                 IN  IF lock.transactions = <<t>>
                     THEN q # << >> =>
                            lock_table'[k] =
                                [transactions  |-> <<Head(q).transaction>>,
                                 mode          |-> Head(q).mode,
                                 request_queue |-> Tail(q)]
                     ELSE /\ lock_table'[k].request_queue = q
                          /\ lock_table'[k].mode = lock.mode
                          /\ lock_table'[k].transactions
                                 = Remove(lock.transactions, t)]_vars

\* A commit or abort has granted a key to the head of its wait queue, a
\* Shared request, and the Shared request behind it is still waiting.
C18_Witness ==
    \E k \in DOMAIN lock_table :
        /\ last.op \in {"commit", "abort"}
        /\ Len(lock_table[k].transactions) = 1
        /\ lock_table[k].mode = SharedLock
        /\ Len(waiting[k]) = 1
        /\ lock_table[k].request_queue = <<RequestLock(waiting[k][1], SharedLock)>>
        /\ status[lock_table[k].transactions[1]] = "Blocked"
        /\ desired_lock[lock_table[k].transactions[1]].key = k

(***************************************************************************)
(* C19: in every reachable state, no transaction is at once a holder of a  *)
(* key's Lock and in the wait queue of that Lock.                          *)
(***************************************************************************)
C19_NoHoldAndWait ==
    \A t \in Txns : \A k \in DOMAIN lock_table :
        ~(Holds(lock_table, t, k) /\ Queued(t, k))

\* An Exclusive request of a Shared holder has just been refused, other
\* holders being there: the requester is in the wait queue and no longer a
\* holder.
C19_Witness ==
    \E t \in Txns : \E k \in DOMAIN lock_table :
        /\ last.op = "perform_put" /\ last.t = t /\ last.key = k
        /\ last.ret = None
        /\ InSeq(k, acquired_locks[t])
        /\ lock_table[k].mode = SharedLock
        /\ lock_table[k].transactions # << >>
        /\ Queued(t, k)
        /\ ~Holds(lock_table, t, k)

(***************************************************************************)
(* C20: in every reachable state, the wait queue of a Lock has at most one *)
(* entry of each transaction, also after a transaction that has an entry   *)
(* in the queue, Shared or Exclusive, has made a new request on the key.   *)
(***************************************************************************)
C20_OneEntryPerTransaction ==
    \A k \in DOMAIN lock_table :
        \A i, j \in 1..Len(lock_table[k].request_queue) :
            lock_table[k].request_queue[i].transaction
                = lock_table[k].request_queue[j].transaction => i = j

=============================================================================
